---- MODULE Spec2Model ----
(***************************************************************************)
(* Model of the zustand model store (src/src/stores/modelStore.ts): the    *)
(* store's fields, its asynchronous actions split at every await, and the  *)
(* Tauri event listeners registered by initialize().                       *)
(*                                                                         *)
(* The backend (commands.*, emitted events) is outside the repository: it  *)
(* is modelled as an environment that may answer every command with "ok",  *)
(* "error" (result.status = "error") or "throw" (rejected promise), may    *)
(* report any snapshot and may emit any event at any time.                 *)
(*                                                                         *)
(* Numbers: Date.now() is an integer number of milliseconds; byte counts   *)
(* are integers; speeds (MB/s) are JavaScript Numbers, i.e. IEEE 754       *)
(* binary64 values, and the arithmetic of the throughput estimator rounds  *)
(* as JavaScript does.                                                     *)
(***************************************************************************)
EXTENDS Integers, Sequences, FiniteSets, Bags, TLC

(* ---------------------------- bounds ----------------------------------- *)
ModelIds == {"m1"}
MaxCalls == 2
MaxInits == 2
MaxClock == 1500
TickMs == 250
MiB == 1024 * 1024

(* ---------------------------- helpers ---------------------------------- *)
Null == "null"
NoModel == ""

Put(f, k, v) == [x \in (DOMAIN f) \cup {k} |-> IF x = k THEN v ELSE f[x]]
Delete(f, k) == [x \in (DOMAIN f) \ {k} |-> f[x]]
Has(f, k) == k \in DOMAIN f
Empty == [x \in {} |-> TRUE]

(* ---------------- natural numbers of any size -------------------------- *)
(* little-endian sequences of limbs, without leading zero limbs; <<>> is 0 *)
LimbBits == 14
Base == 16384
Precision == 53
Pow2Table ==
  <<1, 2, 4, 8, 16, 32, 64, 128, 256, 512, 1024, 2048, 4096, 8192>>
Pow2(n) == Pow2Table[n + 1]

(* the element of a set of one element: {F(v) : v \in {e}} computes e     *)
(* once, before F                                                         *)
Val(S) == CHOOSE r \in S : TRUE

Limb(a, i) == IF i >= 1 /\ i <= Len(a) THEN a[i] ELSE 0
Trim(a) ==
  SubSeq(a, 1, Cardinality({i \in 1..Len(a) :
                              \E j \in i..Len(a) : a[j] # 0}))
ShiftLimbs(a, n) == IF a = <<>> THEN a ELSE [i \in 1..n |-> 0] \o a

(* a number below Base^3 *)
BigOf(n) == Trim(<<n % Base, (n \div Base) % Base, n \div (Base * Base)>>)
Small(a) == Limb(a, 1) + Base * (Limb(a, 2) + Base * Limb(a, 3))

(* limb i of a + b receives a carry when a lower limb produces one and    *)
(* every limb between passes it on                                        *)
Carry(a, b, i) ==
  \E j \in 1..(i - 1) :
    /\ Limb(a, j) + Limb(b, j) >= Base
    /\ \A k \in (j + 1)..(i - 1) : Limb(a, k) + Limb(b, k) = Base - 1
BigAdd(a, b) ==
  Trim([i \in 1..((IF Len(a) < Len(b) THEN Len(b) ELSE Len(a)) + 1) |->
          (Limb(a, i) + Limb(b, i) + (IF Carry(a, b, i) THEN 1 ELSE 0))
            % Base])

(* a - b for a >= b *)
Borrow(a, b, i) ==
  \E j \in 1..(i - 1) :
    /\ Limb(a, j) < Limb(b, j)
    /\ \A k \in (j + 1)..(i - 1) : Limb(a, k) = Limb(b, k)
BigSub(a, b) ==
  Trim([i \in 1..Len(a) |->
          (Limb(a, i) - Limb(b, i) - (IF Borrow(a, b, i) THEN 1 ELSE 0)
             + Base) % Base])

(* a * k for k < Base: the low and the high limbs of the products *)
MulSmall(a, k) ==
  BigAdd(Trim([i \in 1..Len(a) |-> (a[i] * k) % Base]),
         ShiftLimbs(Trim([i \in 1..Len(a) |-> (a[i] * k) \div Base]), 1))

(* a * b for a and b of at most four limbs: the columns of the schoolbook *)
(* product, each below 4 * Base^2, split into three limbs                 *)
Column(a, b, k) ==
  Limb(a, 1) * Limb(b, k) + Limb(a, 2) * Limb(b, k - 1)
    + Limb(a, 3) * Limb(b, k - 2) + Limb(a, 4) * Limb(b, k - 3)
Columns(col) ==
  BigAdd(BigAdd(Trim([k \in DOMAIN col |-> col[k] % Base]),
                ShiftLimbs(Trim([k \in DOMAIN col |->
                                   (col[k] \div Base) % Base]), 1)),
         ShiftLimbs(Trim([k \in DOMAIN col |->
                            col[k] \div (Base * Base)]), 2))
BigMul(a, b) ==
  Val({Columns(col) :
         col \in {[k \in 1..(Len(a) + Len(b)) |-> Column(a, b, k)]}})

(* a * 2^j for j < LimbBits: the bits that stay in a limb and those that   *)
(* move into the next                                                      *)
ShiftBits(a, j) ==
  Trim([i \in 1..(Len(a) + 1) |->
          ((Limb(a, i) * Pow2(j)) % Base)
            + ((Limb(a, i - 1) * Pow2(j)) \div Base)])
DropLimbs(a, n) == IF Len(a) <= n THEN <<>> ELSE SubSeq(a, n + 1, Len(a))
MoveLimbs(a, n) == IF n >= 0 THEN ShiftLimbs(a, n) ELSE DropLimbs(a, -n)
(* floor(a * 2^k), for k of either sign *)
Scale(a, k) == MoveLimbs(ShiftBits(a, k % LimbBits), k \div LimbBits)

(* bit k of a, and whether the k lowest bits of a are all zero *)
Bit(a, k) ==
  (Limb(a, (k \div LimbBits) + 1) \div Pow2(k % LimbBits)) % 2
LowBitsZero(a, k) ==
  \A i \in 1..Len(a) :
    /\ i <= k \div LimbBits => a[i] = 0
    /\ i = (k \div LimbBits) + 1 => a[i] % Pow2(k % LimbBits) = 0

BigLess(a, b) ==
  IF Len(a) # Len(b) THEN Len(a) < Len(b)
  ELSE \E i \in 1..Len(a) :
         a[i] < b[i] /\ \A j \in (i + 1)..Len(a) : a[j] = b[j]

BitLen(a) ==
  IF a = <<>> THEN 0
  ELSE LimbBits * (Len(a) - 1)
         + Cardinality({i \in 1..LimbBits : Pow2(i - 1) <= a[Len(a)]})

(* Long division of r * Base by d, for d of Precision bits and r < d: the *)
(* digit is estimated from the leading bits of both numbers (the estimate  *)
(* is never too small) and lowered until it fits.                          *)
LeadShift == Precision - LimbBits - 1

RECURSIVE Fit(_, _, _)
Fit(r, d, q) == IF BigLess(r, MulSmall(d, q)) THEN Fit(r, d, q - 1) ELSE q
Digit(r, d) ==
  Val({Fit(r, d, IF hi < Base THEN hi ELSE Base - 1) :
         hi \in {(Small(Scale(r, -LeadShift)) + 1)
                    \div Small(Scale(d, -LeadShift))}})

(* the digits (least significant first) and the remainder after n more    *)
(* steps of the division by d, from the digits q and the remainder r < d   *)
RECURSIVE LongDivision(_, _, _, _)
LongDivision(q, r, d, n) ==
  IF n = 0 THEN <<q, r>>
  ELSE Val({LongDivision(<<digit>> \o q,
                         BigSub(ShiftLimbs(r, 1), MulSmall(d, digit)),
                         d, n - 1) :
              digit \in {Digit(ShiftLimbs(r, 1), d)}})

(* ---------------- IEEE 754 binary64 (the JavaScript Number) ------------ *)
(* A finite Number is (-1)^neg * m * 2^e with m = 0 or 2^52 <= m < 2^53.   *)
(* Every operation rounds its exact result to nearest, ties to even.  The  *)
(* values of this program stay far from overflow and underflow; zero is    *)
(* kept unsigned (the program never stores or tests the sign of a zero).   *)
DZero == [neg |-> FALSE, m |-> <<>>, e |-> 0]
Least(a, b) == IF a < b THEN a ELSE b

(* q * 2^e after the rounding has added one to q *)
Carried(neg, q, e) ==
  IF BitLen(q) > Precision
  THEN [neg |-> neg, m |-> Scale(q, -1), e |-> e + 1]
  ELSE [neg |-> neg, m |-> q, e |-> e]
Rounded(neg, q, up, e) ==
  IF up THEN Carried(neg, BigAdd(q, <<1>>), e)
  ELSE [neg |-> neg, m |-> q, e |-> e]
(* n * 2^e to nearest, ties to even: n has Precision + s bits; it is       *)
(* rounded up when the first bit dropped is set and either a lower bit is  *)
(* set or the last bit kept is                                             *)
RoundDouble(neg, n, e) ==
  IF n = <<>> THEN DZero
  ELSE Val({Rounded(neg, Scale(n, -s),
                    /\ s > 0
                    /\ Bit(n, s - 1) = 1
                    /\ ~LowBitsZero(n, s - 1) \/ Bit(n, s) = 1,
                    e + s) :
              s \in {BitLen(n) - Precision}})

DOf(n) == RoundDouble(n < 0, BigOf(IF n < 0 THEN -n ELSE n), 0)
DMul(x, y) ==
  IF x.m = <<>> \/ y.m = <<>> THEN DZero
  ELSE RoundDouble(x.neg # y.neg, BigMul(x.m, y.m), x.e + y.e)
(* a * 2^e + b * 2^e with the signs given *)
AddAligned(xneg, a, yneg, b, e) ==
  RoundDouble(IF xneg = yneg \/ ~BigLess(a, b) THEN xneg ELSE yneg,
              IF xneg = yneg THEN BigAdd(a, b)
              ELSE IF BigLess(a, b) THEN BigSub(b, a) ELSE BigSub(a, b),
              e)
DAdd(x, y) ==
  IF x.m = <<>> THEN y
  ELSE IF y.m = <<>> THEN x
  ELSE Val({AddAligned(x.neg, Scale(x.m, x.e - e),
                       y.neg, Scale(y.m, y.e - e), e) :
              e \in {Least(x.e, y.e)}})
(* the quotient of the mantissas: its whole part and four more digits,   *)
(* doubled, with a last bit that tells whether a remainder is left         *)
WithSticky(q, r) == IF r = <<>> THEN q ELSE [q EXCEPT ![1] = @ + 1]
DDiv(x, y) ==
  IF x.m = <<>> THEN DZero
  ELSE Val({RoundDouble(x.neg # y.neg,
                        WithSticky(Scale(Trim(qr[1]), 1), qr[2]),
                        x.e - y.e - (4 * LimbBits + 1)) :
              qr \in {LongDivision(
                        IF BigLess(x.m, y.m) THEN <<0>> ELSE <<1>>,
                        IF BigLess(x.m, y.m) THEN x.m ELSE BigSub(x.m, y.m),
                        y.m, 4)}})
DLess(x, y) ==
  IF x.m = <<>> THEN y.m # <<>> /\ ~y.neg
  ELSE IF y.m = <<>> THEN x.neg
  ELSE IF x.neg # y.neg THEN x.neg
  ELSE IF x.neg
  THEN IF x.e # y.e THEN y.e < x.e ELSE BigLess(y.m, x.m)
  ELSE IF x.e # y.e THEN x.e < y.e ELSE BigLess(x.m, y.m)
(* Math.max of two Numbers *)
DMax(x, y) == IF DLess(x, y) THEN y ELSE x

(* ---------------------------- data ------------------------------------- *)
ModelInfo(i, d) == [id |-> i, is_downloading |-> d]
Snapshot(D) == {ModelInfo(i, i \in D) : i \in ModelIds}

DownloadProgress(i, d, t, p) ==
  [model_id |-> i, downloaded |-> d, total |-> t, percentage |-> p]
ZeroProgress(i) == DownloadProgress(i, 0, 0, 0)
HalfProgress(i) == DownloadProgress(i, MiB, 2 * MiB, 50)
FullProgress(i) == DownloadProgress(i, 2 * MiB, 2 * MiB, 100)
(* payloads of a download of 3,000,000 bytes, reported by the million *)
Sample(i, k) ==
  DownloadProgress(i, k * 1000000, 3000000, (k * 100) \div 3)
Samples == {Sample(i, k) : i \in ModelIds, k \in 1..3}
Payloads == {HalfProgress(i) : i \in ModelIds} \cup
            {FullProgress(i) : i \in ModelIds} \cup Samples

DownloadStats(st, lu, td, sp) ==
  [startTime |-> st, lastUpdate |-> lu, totalDownloaded |-> td, speed |-> sp]

InitialStore ==
  [ models |-> {},
    currentModel |-> NoModel,
    downloadingModels |-> {},
    extractingModels |-> {},
    downloadProgress |-> Empty,
    downloadStats |-> Empty,
    loading |-> TRUE,
    error |-> Null,
    hasAnyModels |-> FALSE,
    isFirstRun |-> FALSE,
    initialized |-> FALSE ]

(* ------------------- store transitions (pure) -------------------------- *)
(* variant: the merge trusts the snapshot alone *)
MergeDownloadingBySnapshot(downloadingModels, downloadProgress, data) ==
  {m.id : m \in {x \in data : x.is_downloading}}

(* variant: the merge only ever adds to the membership *)
MergeDownloadingKeepingAll(downloadingModels, downloadProgress, data) ==
  downloadingModels \cup {m.id : m \in {x \in data : x.is_downloading}}

(* loadModels after the await: lines 79-113 *)
MergeDownloading(downloadingModels, downloadProgress, data) ==
  LET backendDownloading == {m.id : m \in {x \in data : x.is_downloading}}
      merged == downloadingModels \cup backendDownloading
  IN  {id \in merged :
         ~(id \notin backendDownloading /\ ~Has(downloadProgress, id))}

LoadModelsResult(s, status, data) ==
  IF status = "ok"
  THEN [s EXCEPT !.models = data,
                 !.error = Null,
                 !.downloadingModels =
                    MergeDownloading(@, s.downloadProgress, data),
                 !.loading = FALSE]
  ELSE [s EXCEPT !.error = "Failed to load models", !.loading = FALSE]

(* variant: a failed load is surfaced like the other operations' failures *)
LoadCurrentModelResultSurfacing(s, status, data) ==
  IF status = "ok"
  THEN [s EXCEPT !.currentModel = data]
  ELSE [s EXCEPT !.error = "Failed to load current model"]

(* loadCurrentModel after the await: lines 119-124 *)
LoadCurrentModelResult(s, status, data) ==
  IF status = "ok" THEN [s EXCEPT !.currentModel = data] ELSE s

(* checkFirstRun after the await: lines 130-139 *)
CheckFirstRunResult(s, status, hasModels) ==
  IF status = "ok"
  THEN [s EXCEPT !.hasAnyModels = hasModels, !.isFirstRun = ~hasModels]
  ELSE s

(* variant: success sets the active id and leaves the first-run flag *)
SelectModelResultKeepingFirstRun(s, status, modelId) ==
  IF status = "ok"
  THEN [s EXCEPT !.currentModel = modelId, !.hasAnyModels = TRUE]
  ELSE [s EXCEPT !.error = "Failed to switch to model"]

(* selectModel after the await: lines 146-160 *)
SelectModelResult(s, status, modelId) ==
  IF status = "ok"
  THEN [s EXCEPT !.currentModel = modelId,
                 !.isFirstRun = FALSE,
                 !.hasAnyModels = TRUE]
  ELSE [s EXCEPT !.error = "Failed to switch to model"]

(* variant: the optimistic update marks the id without a Progress record *)
DownloadModelBeginBare(s, modelId) ==
  [s EXCEPT !.error = Null,
            !.downloadingModels = @ \cup {modelId}]

(* downloadModel before the await: lines 165-176 *)
DownloadModelBegin(s, modelId) ==
  [s EXCEPT !.error = Null,
            !.downloadingModels = @ \cup {modelId},
            !.downloadProgress = Put(@, modelId, ZeroProgress(modelId))]

(* downloadModel after the await: lines 178-197 *)
DownloadModelResult(s, status, modelId) ==
  IF status = "ok"
  THEN s
  ELSE [s EXCEPT !.error = "Failed to download model",
                 !.downloadingModels = @ \ {modelId}]

(* variant: the Progress record outlives the download *)
RemoveDownloadKeepingProgress(s, modelId) ==
  [s EXCEPT !.downloadingModels = @ \ {modelId},
            !.downloadStats = Delete(@, modelId)]

(* the three deletes of lines 207-209, 318-320 and 362-364 *)
RemoveDownload(s, modelId) ==
  [s EXCEPT !.downloadingModels = @ \ {modelId},
            !.downloadProgress = Delete(@, modelId),
            !.downloadStats = Delete(@, modelId)]

(* variant: the records are dropped whatever the backend answers *)
CancelDownloadResultEager(s, status, modelId) ==
  IF status = "ok"
  THEN RemoveDownload(s, modelId)
  ELSE [RemoveDownload(s, modelId) EXCEPT
          !.error = "Failed to cancel download"]

(* variant: a confirmed cancel leaves the ThroughputSample behind *)
CancelDownloadResultKeepingStats(s, status, modelId) ==
  IF status = "ok"
  THEN [s EXCEPT !.downloadingModels = @ \ {modelId},
                 !.downloadProgress = Delete(@, modelId)]
  ELSE [s EXCEPT !.error = "Failed to cancel download"]

(* cancelDownload after the first await: lines 204-223 *)
CancelDownloadResult(s, status, modelId) ==
  IF status = "ok"
  THEN RemoveDownload(s, modelId)
  ELSE [s EXCEPT !.error = "Failed to cancel download"]

(* variant: a rejected delete leaves no message *)
DeleteModelResultSilent(s, status) == s

(* deleteModel after the first await: lines 230-241 *)
DeleteModelResult(s, status) ==
  IF status = "ok" THEN s ELSE [s EXCEPT !.error = "Failed to delete model"]

(* the Numbers 1000, 1024 * 1024, 0.5, 0.8 and 0.2 of lines 291-299 *)
DThousand == DOf(1000)
DMiB == DOf(MiB)
DHalf == DDiv(DOf(1), DOf(2))
DEightTenths == DDiv(DOf(8), DOf(10))
DTwoTenths == DDiv(DOf(2), DOf(10))

(* timeDiff of line 291 *)
TimeDiff(lastUpdate, t) == DDiv(DOf(t - lastUpdate), DThousand)

(* variant: every sample that arrives later than the last one is accepted *)
AcceptedAtOnce(timeDiff) == DLess(DZero, timeDiff)

(* the debounce test of line 294 *)
Accepted(timeDiff) == DLess(DHalf, timeDiff)

(* variant: a negative delta counts with its magnitude *)
ValidCurrentSpeedOfMagnitude(bytesDiff, timeDiff) ==
  DDiv(DDiv(DOf(IF bytesDiff < 0 THEN -bytesDiff ELSE bytesDiff), DMiB),
       timeDiff)

(* currentSpeed and validCurrentSpeed: lines 295-296 *)
ValidCurrentSpeed(bytesDiff, timeDiff) ==
  LET currentSpeed == DDiv(DDiv(DOf(bytesDiff), DMiB), timeDiff)
  IN  DMax(DZero, currentSpeed)

(* variant: the new sample is added to the rate instead of blended *)
SmoothedSpeedAdding(speed, validCurrentSpeed) ==
  IF DLess(DZero, speed)
  THEN DAdd(speed, DMul(validCurrentSpeed, DTwoTenths))
  ELSE validCurrentSpeed

(* variant: the first rate is blended with the zero of the new record *)
SmoothedSpeedAlwaysBlending(speed, validCurrentSpeed) ==
  DAdd(DMul(speed, DEightTenths), DMul(validCurrentSpeed, DTwoTenths))

(* smoothedSpeed: lines 297-300 *)
SmoothedSpeed(speed, validCurrentSpeed) ==
  IF DLess(DZero, speed)
  THEN DAdd(DMul(speed, DEightTenths), DMul(validCurrentSpeed, DTwoTenths))
  ELSE validCurrentSpeed

(* the throughput estimator of the progress listener: lines 278-311; the  *)
(* constants of lines 291-306 are computed one after the other, as the     *)
(* listener does                                                           *)
UpdateStats(downloadStats, progress, t) ==
  IF ~Has(downloadStats, progress.model_id)
  THEN Put(downloadStats, progress.model_id,
           DownloadStats(t, t, progress.downloaded, DZero))
  ELSE
    LET current == downloadStats[progress.model_id]
        bytesDiff == progress.downloaded - current.totalDownloaded
    IN  Val({IF Accepted(timeDiff)
             THEN Val({Put(downloadStats, progress.model_id,
                           DownloadStats(current.startTime, t,
                                         progress.downloaded, speed)) :
                         speed \in
                           {DMax(DZero,
                                 Val({SmoothedSpeed(current.speed,
                                                    validCurrentSpeed) :
                                        validCurrentSpeed \in
                                          {ValidCurrentSpeed(bytesDiff,
                                                             timeDiff)}}))}})
             ELSE downloadStats :
               timeDiff \in {TimeDiff(current.lastUpdate, t)}})

(* listener bodies: lines 269-377 *)
OnDownloadProgress(s, progress, t) ==
  [s EXCEPT !.downloadProgress = Put(@, progress.model_id, progress),
            !.downloadStats = UpdateStats(@, progress, t)]

(* variant: the listener forgets the ThroughputSample *)
OnDownloadCompleteKeepingStats(s, modelId) ==
  [s EXCEPT !.downloadingModels = @ \ {modelId},
            !.downloadProgress = Delete(@, modelId)]

(* variant: the listener clears membership first and the records on the   *)
(* next delivery                                                          *)
OnDownloadCompleteInTwoSteps(s, modelId) ==
  IF modelId \in s.downloadingModels
  THEN [s EXCEPT !.downloadingModels = @ \ {modelId}]
  ELSE RemoveDownload(s, modelId)

OnDownloadComplete(s, modelId) == RemoveDownload(s, modelId)

(* variant: the listener drops the records and keeps the membership *)
OnDownloadCancelledKeepingMembership(s, modelId) ==
  [s EXCEPT !.downloadProgress = Delete(@, modelId),
            !.downloadStats = Delete(@, modelId)]

(* variant: the listener acts only on an id of the membership *)
OnDownloadCancelledOfMember(s, modelId) ==
  IF modelId \in s.downloadingModels THEN RemoveDownload(s, modelId) ELSE s
OnDownloadCancelled(s, modelId) == RemoveDownload(s, modelId)

OnExtractionStarted(s, modelId) ==
  [s EXCEPT !.extractingModels = @ \cup {modelId}]

OnExtractionCompleted(s, modelId) ==
  [s EXCEPT !.extractingModels = @ \ {modelId}]

OnExtractionFailed(s, modelId) ==
  [s EXCEPT !.extractingModels = @ \ {modelId},
            !.error = "Failed to extract model"]


(* dispatch of one listener invocation, and of n registered copies of it *)
Handle(s, name, modelId, progress, t) ==
  CASE name = "model-download-progress" -> OnDownloadProgress(s, progress, t)
    [] name = "model-download-complete" -> OnDownloadComplete(s, modelId)
    [] name = "model-download-cancelled" -> OnDownloadCancelled(s, modelId)
    [] name = "model-extraction-started" -> OnExtractionStarted(s, modelId)
    [] name = "model-extraction-completed" -> OnExtractionCompleted(s, modelId)
    [] name = "model-extraction-failed" -> OnExtractionFailed(s, modelId)
    [] OTHER -> s

RECURSIVE HandleN(_, _, _, _, _, _)
HandleN(s, name, modelId, progress, t, n) ==
  IF n = 0 THEN s
  ELSE HandleN(Handle(s, name, modelId, progress, t),
               name, modelId, progress, t, n - 1)

(* the refreshes one listener invocation starts: lines 323, 342, 370-376 *)
Refreshes(name) ==
  CASE name \in {"model-download-complete", "model-extraction-completed"} ->
         {"loadModels"}
    [] name \in {"model-deleted", "model-state-changed"} ->
         {"loadModels", "loadCurrentModel"}
    [] OTHER -> {}

(* ---------------------------- state ------------------------------------ *)
VARIABLES
  store,      \* the zustand state (interface ModelsStore)
  calls,      \* bag of asynchronous calls suspended at an await
  listeners,  \* number of times the eight listeners have been registered
  now,        \* Date.now(), in ms
  last        \* history: the step taken last

vars == <<store, calls, listeners, now, last>>

Statuses == {"ok", "error", "throw"}
InitParts == {"loadModels", "loadCurrentModel", "checkFirstRun"}

(* the ThroughputSample of an id, as a set of at most one record *)
StatsOf(s, id) ==
  IF Has(s.downloadStats, id) THEN {s.downloadStats[id]} ELSE {}

NoPre == [member |-> FALSE, progress |-> {}]
PreOf(s, id) ==
  [member |-> id \in s.downloadingModels,
   progress |-> IF Has(s.downloadProgress, id)
                THEN {s.downloadProgress[id]} ELSE {}]

(* a suspended call: op is the operation (or event) that started it, phase *)
(* the command it awaits, left the awaits of initialize's Promise.all      *)
(* still open, snap the ids the backend's answer to getAvailableModels     *)
(* marks downloading.  History: stale = the ids of snap whose terminal     *)
(* event was handled after the refresh was started; pre = downloadModel's  *)
(* view of its id before the call.                                         *)
Call(op, id, phase, left, snap, pre) ==
  [op |-> op, id |-> id, phase |-> phase, left |-> left, snap |-> snap,
   stale |-> {}, pre |-> pre]

Single(c) == SetToBag({c})
Inits == BagCardinality([c \in {x \in BagToSet(calls) : x.op = "initialize"}
                           |-> calls[c]])
Copies(c, n) == [x \in {c} |-> n]
Pending == BagToSet(calls)
Room(k) == (BagCardinality(calls) - Inits) + k <= MaxCalls
AwaitsModels(c) ==
  c.phase = "loadModels" \/ (c.phase = "all" /\ "loadModels" \in c.left)
MarkStale(c, id) ==
  IF AwaitsModels(c) /\ id \in c.snap
  THEN [c EXCEPT !.stale = @ \cup {id}]
  ELSE c

(* the step taken last: op the function that ran, by the operation or     *)
(* event on whose behalf, id its model id, ret what it returned to its     *)
(* caller ("none" while it is suspended), n the listener copies that ran;  *)
(* for a snapshot merge, dropped = the ids it removed from                 *)
(* downloadingModels; for an event and a confirmed cancel, was = the id's  *)
(* membership and Progress before the step and had = its ThroughputSample  *)
(* before the step                                                         *)
Step(op, by, id, ret, n) ==
  [op |-> op, by |-> by, id |-> id, ret |-> ret, n |-> n,
   dropped |-> {}, was |-> NoPre, had |-> {}]
Merged(step, s) ==
  [step EXCEPT !.dropped = store.downloadingModels \ s.downloadingModels]
Acted(step) ==
  [step EXCEPT !.was = IF step.id \in ModelIds
                       THEN PreOf(store, step.id) ELSE NoPre,
               !.had = IF step.id \in ModelIds
                       THEN StatsOf(store, step.id) ELSE {}]

Init ==
  /\ store = InitialStore
  /\ calls = EmptyBag
  /\ listeners = 0
  /\ now = 0
  /\ last = Step("create", "create", NoModel, "none", 0)

Tick ==
  /\ now + TickMs <= MaxClock
  /\ now' = now + TickMs
  /\ last' = Step("tick", "tick", NoModel, "none", 0)
  /\ UNCHANGED <<store, calls, listeners>>

(* ---------------- calls made by the user interface --------------------- *)
(* initialize(): lines 261-266, up to the await of Promise.all *)
Initialize ==
  /\ ~store.initialized
  /\ Inits < MaxInits
  /\ \E D \in SUBSET ModelIds :
       calls' = calls (+) Single(Call("initialize", NoModel, "all", InitParts,
                                      D, NoPre))
  /\ last' = Step("initialize", "initialize", NoModel, "none", 0)
  /\ UNCHANGED <<store, listeners, now>>

(* initialize() when the flag is set: line 261 *)
InitializeAgain ==
  /\ store.initialized
  /\ last' = Step("initialize", "initialize", NoModel, "returned", 0)
  /\ UNCHANGED <<store, calls, listeners, now>>

(* loadModels() called on its own: lines 76-78 *)
LoadModels ==
  /\ Room(1)
  /\ \E D \in SUBSET ModelIds :
       calls' = calls (+) Single(Call("loadModels", NoModel, "loadModels", {},
                                      D, NoPre))
  /\ last' = Step("loadModels", "loadModels", NoModel, "none", 0)
  /\ UNCHANGED <<store, listeners, now>>

(* loadCurrentModel() called on its own: lines 116-118 *)
LoadCurrentModel ==
  /\ Room(1)
  /\ calls' = calls (+) Single(Call("loadCurrentModel", NoModel,
                                    "loadCurrentModel", {}, {}, NoPre))
  /\ last' = Step("loadCurrentModel", "loadCurrentModel", NoModel, "none", 0)
  /\ UNCHANGED <<store, listeners, now>>

(* selectModel(modelId): lines 143-145 *)
SelectModel(modelId) ==
  /\ Room(1)
  /\ store' = [store EXCEPT !.error = Null]
  /\ calls' = calls (+) Single(Call("selectModel", modelId, "setActiveModel",
                                    {}, {}, NoPre))
  /\ last' = Step("selectModel", "selectModel", modelId, "none", 0)
  /\ UNCHANGED <<listeners, now>>

(* downloadModel(modelId): lines 164-177 *)
DownloadModel(modelId) ==
  /\ Room(1)
  /\ store' = DownloadModelBegin(store, modelId)
  /\ calls' = calls (+) Single(Call("downloadModel", modelId, "downloadModel",
                                    {}, {}, PreOf(store, modelId)))
  /\ last' = Step("downloadModel", "downloadModel", modelId, "none", 0)
  /\ UNCHANGED <<listeners, now>>

(* cancelDownload(modelId): lines 201-203 *)
CancelDownload(modelId) ==
  /\ Room(1)
  /\ store' = [store EXCEPT !.error = Null]
  /\ calls' = calls (+) Single(Call("cancelDownload", modelId,
                                    "cancelDownload", {}, {}, NoPre))
  /\ last' = Step("cancelDownload", "cancelDownload", modelId, "none", 0)
  /\ UNCHANGED <<listeners, now>>

(* deleteModel(modelId): lines 227-229 *)
DeleteModel(modelId) ==
  /\ Room(1)
  /\ store' = [store EXCEPT !.error = Null]
  /\ calls' = calls (+) Single(Call("deleteModel", modelId, "deleteModel",
                                    {}, {}, NoPre))
  /\ last' = Step("deleteModel", "deleteModel", modelId, "none", 0)
  /\ UNCHANGED <<listeners, now>>

(* ---------------- the backend answers a command ------------------------ *)
(* what follows the last await of initialize: lines 268-379 *)
Registered(s) == [s EXCEPT !.initialized = TRUE]

(* one of initialize's three loads resolves; the last one to resolve lets *)
(* initialize run on: it registers the listeners and sets the flag        *)
InitPartDone(c, part, s) ==
  IF c.left = {part}
  THEN /\ store' = Registered(s)
       /\ calls' = calls (-) Single(c)
       /\ listeners' = listeners + 1
       /\ last' = Merged(Step("initialize", "initialize", NoModel,
                              "returned", 0), s)
  ELSE /\ store' = s
       /\ calls' = (calls (-) Single(c))
                     (+) Single([c EXCEPT !.left = @ \ {part}])
       /\ listeners' = listeners
       /\ last' = Merged(Step(part, "initialize", NoModel, "none", 0), s)

(* getAvailableModels resolves or rejects: lines 78-113, and the caller's *)
(* continuation (lines 215, 232, 266, or none)                            *)
GetAvailableModelsResponds(c, status) ==
  /\ c \in Pending
  /\ AwaitsModels(c)
  /\ LET s == LoadModelsResult(store, status, Snapshot(c.snap))
     IN  CASE c.op = "initialize" -> InitPartDone(c, "loadModels", s)
           [] c.op = "cancelDownload" ->
                /\ store' = s
                /\ calls' = calls (-) Single(c)
                /\ last' = Merged(Step("cancelDownload", c.op, c.id, "true",
                                            0), s)
                /\ UNCHANGED listeners
           [] c.op = "deleteModel" ->
                /\ store' = s
                /\ calls' = (calls (-) Single(c))
                     (+) Single([c EXCEPT !.phase = "loadCurrentModel"])
                /\ last' = Merged(Step("loadModels", c.op, c.id, "none", 0),
                                       s)
                /\ UNCHANGED listeners
           [] OTHER ->
                /\ store' = s
                /\ calls' = calls (-) Single(c)
                /\ last' = Merged(Step("loadModels", c.op, c.id, "returned",
                                            0), s)
                /\ UNCHANGED listeners
  /\ UNCHANGED now

(* getCurrentModel resolves or rejects: lines 118-124 *)
GetCurrentModelResponds(c, status, data) ==
  /\ c \in Pending
  /\ c.phase = "loadCurrentModel"
       \/ (c.phase = "all" /\ "loadCurrentModel" \in c.left)
  /\ LET s == LoadCurrentModelResult(store, status, data)
     IN  CASE c.op = "initialize" -> InitPartDone(c, "loadCurrentModel", s)
           [] c.op = "deleteModel" ->
                /\ store' = s
                /\ calls' = calls (-) Single(c)
                /\ last' = Step("deleteModel", c.op, c.id, "true", 0)
                /\ UNCHANGED listeners
           [] OTHER ->
                /\ store' = s
                /\ calls' = calls (-) Single(c)
                /\ last' = Step("loadCurrentModel", c.op, c.id, "returned", 0)
                /\ UNCHANGED listeners
  /\ UNCHANGED now

(* hasAnyModelsAvailable resolves or rejects: lines 129-139 *)
HasAnyModelsAvailableResponds(c, status, data) ==
  /\ c \in Pending
  /\ c.phase = "all" /\ "checkFirstRun" \in c.left
  /\ InitPartDone(c, "checkFirstRun", CheckFirstRunResult(store, status, data))
  /\ UNCHANGED now

(* setActiveModel resolves or rejects: lines 146-160 *)
SetActiveModelResponds(c, status) ==
  /\ c \in Pending
  /\ c.phase = "setActiveModel"
  /\ store' = SelectModelResult(store, status, c.id)
  /\ calls' = calls (-) Single(c)
  /\ last' = Step("selectModel", c.op, c.id,
                  IF status = "ok" THEN "true" ELSE "false", 0)
  /\ UNCHANGED <<listeners, now>>

(* downloadModel resolves or rejects: lines 178-197 *)
DownloadModelResponds(c, status) ==
  /\ c \in Pending
  /\ c.phase = "downloadModel"
  /\ store' = DownloadModelResult(store, status, c.id)
  /\ calls' = calls (-) Single(c)
  /\ last' = Step("downloadModel", c.op, c.id,
                  IF status = "ok" THEN "true" ELSE "false", 0)
  /\ UNCHANGED <<listeners, now>>

(* cancelDownload resolves or rejects: lines 204-223; on success the call *)
(* goes on to await loadModels (line 214)                                 *)
CancelDownloadResponds(c, status) ==
  /\ c \in Pending
  /\ c.phase = "cancelDownload"
  /\ store' = CancelDownloadResult(store, status, c.id)
  /\ IF status = "ok"
     THEN /\ \E D \in SUBSET ModelIds :
               calls' = (calls (-) Single(c))
                 (+) Single([c EXCEPT !.phase = "loadModels", !.snap = D])
          /\ last' = Acted(Step("cancelDownload", c.op, c.id, "none", 0))
     ELSE /\ calls' = calls (-) Single(c)
          /\ last' = Step("cancelDownload", c.op, c.id, "false", 0)
  /\ UNCHANGED <<listeners, now>>

(* deleteModel resolves or rejects: lines 230-241; on success the call    *)
(* goes on to await loadModels (line 231)                                 *)
DeleteModelResponds(c, status) ==
  /\ c \in Pending
  /\ c.phase = "deleteModel"
  /\ store' = DeleteModelResult(store, status)
  /\ IF status = "ok"
     THEN /\ \E D \in SUBSET ModelIds :
               calls' = (calls (-) Single(c))
                 (+) Single([c EXCEPT !.phase = "loadModels", !.snap = D])
          /\ last' = Step("deleteModel", c.op, c.id, "none", 0)
     ELSE /\ calls' = calls (-) Single(c)
          /\ last' = Step("deleteModel", c.op, c.id, "false", 0)
  /\ UNCHANGED <<listeners, now>>

(* ---------------- the backend emits an event --------------------------- *)
TerminalEvents == {"model-download-complete", "model-download-cancelled"}

(* every registered copy of the listener for the event runs: its state    *)
(* change (set) first, then the refreshes it starts without awaiting them *)
Deliver(name, modelId, progress) ==
  /\ listeners >= 1
  /\ Room(listeners * Cardinality(Refreshes(name)))
  /\ store' = HandleN(store, name, modelId, progress, now, listeners)
  /\ \E D \in SUBSET ModelIds :
       LET before == IF name \in TerminalEvents
                     THEN BagOfAll(LAMBDA c : MarkStale(c, modelId), calls)
                     ELSE calls
           models == IF "loadModels" \in Refreshes(name)
                     THEN Copies(Call(name, modelId, "loadModels", {}, D,
                                      NoPre), listeners)
                     ELSE EmptyBag
           current == IF "loadCurrentModel" \in Refreshes(name)
                      THEN Copies(Call(name, modelId, "loadCurrentModel", {},
                                       {}, NoPre), listeners)
                      ELSE EmptyBag
       IN  calls' = (before (+) models) (+) current
  /\ last' = Acted(Step(name, name, modelId, "none", listeners))
  /\ UNCHANGED <<listeners, now>>

ModelDownloadProgress(progress) ==
  Deliver("model-download-progress", progress.model_id, progress)
ModelDownloadComplete(modelId) ==
  Deliver("model-download-complete", modelId, ZeroProgress(modelId))
ModelDownloadCancelled(modelId) ==
  Deliver("model-download-cancelled", modelId, ZeroProgress(modelId))
ModelExtractionStarted(modelId) ==
  Deliver("model-extraction-started", modelId, ZeroProgress(modelId))
ModelExtractionCompleted(modelId) ==
  Deliver("model-extraction-completed", modelId, ZeroProgress(modelId))
ModelExtractionFailed(modelId) ==
  Deliver("model-extraction-failed", modelId, ZeroProgress(modelId))
ModelDeleted ==
  Deliver("model-deleted", NoModel, ZeroProgress(NoModel))
ModelStateChanged ==
  Deliver("model-state-changed", NoModel, ZeroProgress(NoModel))

(* ---------------------------- specification ---------------------------- *)
Next ==
  \/ Tick
  \/ Initialize
  \/ InitializeAgain
  \/ LoadModels
  \/ LoadCurrentModel
  \/ \E modelId \in ModelIds : SelectModel(modelId)
  \/ \E modelId \in ModelIds : DownloadModel(modelId)
  \/ \E modelId \in ModelIds : CancelDownload(modelId)
  \/ \E modelId \in ModelIds : DeleteModel(modelId)
  \/ \E c \in Pending, status \in Statuses :
       GetAvailableModelsResponds(c, status)
  \/ \E c \in Pending, status \in Statuses, data \in ModelIds \cup {NoModel} :
       GetCurrentModelResponds(c, status, data)
  \/ \E c \in Pending, status \in Statuses, data \in BOOLEAN :
       HasAnyModelsAvailableResponds(c, status, data)
  \/ \E c \in Pending, status \in Statuses : SetActiveModelResponds(c, status)
  \/ \E c \in Pending, status \in Statuses : DownloadModelResponds(c, status)
  \/ \E c \in Pending, status \in Statuses : CancelDownloadResponds(c, status)
  \/ \E c \in Pending, status \in Statuses : DeleteModelResponds(c, status)
  \/ \E progress \in Payloads : ModelDownloadProgress(progress)
  \/ \E modelId \in ModelIds : ModelDownloadComplete(modelId)
  \/ \E modelId \in ModelIds : ModelDownloadCancelled(modelId)
  \/ \E modelId \in ModelIds : ModelExtractionStarted(modelId)
  \/ \E modelId \in ModelIds : ModelExtractionCompleted(modelId)
  \/ \E modelId \in ModelIds : ModelExtractionFailed(modelId)
  \/ ModelDeleted
  \/ ModelStateChanged

Spec == Init /\ [][Next]_vars

(* The state a first initialize() leaves behind when its three loads      *)
(* succeed on a backend with no download running: reachable under Spec     *)
(* (Initialize, then the three answers).                                   *)
ReadyStore ==
  [InitialStore EXCEPT !.models = Snapshot({}),
                       !.loading = FALSE,
                       !.hasAnyModels = TRUE,
                       !.initialized = TRUE]

InitReady ==
  /\ store = ReadyStore
  /\ calls = EmptyBag
  /\ listeners = 1
  /\ now = 0
  /\ last = Step("initialize", "initialize", NoModel, "returned", 0)

(* The download slice: the operations and events that read or write      *)
(* downloadingModels, downloadProgress and downloadStats, run after        *)
(* initialize().  The operations left out (selectModel, deleteModel, the   *)
(* extraction and resync events) reach these fields only through           *)
(* loadModels, which is included.                                          *)
NextDownload ==
  \/ LoadModels
  \/ \E modelId \in ModelIds : DownloadModel(modelId)
  \/ \E modelId \in ModelIds : CancelDownload(modelId)
  \/ \E c \in Pending, status \in Statuses :
       GetAvailableModelsResponds(c, status)
  \/ \E c \in Pending, status \in Statuses : DownloadModelResponds(c, status)
  \/ \E c \in Pending, status \in Statuses : CancelDownloadResponds(c, status)
  \/ \E modelId \in ModelIds : ModelDownloadProgress(HalfProgress(modelId))
  \/ \E modelId \in ModelIds : ModelDownloadComplete(modelId)
  \/ \E modelId \in ModelIds : ModelDownloadCancelled(modelId)

SpecDownload == InitReady /\ [][NextDownload]_vars

(* The start-up slice: initialize() from the freshly created store, with  *)
(* two of the events the registered listeners serve (one that starts a     *)
(* refresh, one that does not).                                            *)
NextInit ==
  \/ Initialize
  \/ InitializeAgain
  \/ \E c \in Pending, status \in Statuses :
       GetAvailableModelsResponds(c, status)
  \/ \E c \in Pending, status \in Statuses, data \in ModelIds \cup {NoModel} :
       GetCurrentModelResponds(c, status, data)
  \/ \E c \in Pending, status \in Statuses, data \in BOOLEAN :
       HasAnyModelsAvailableResponds(c, status, data)
  \/ \E modelId \in ModelIds : ModelDownloadComplete(modelId)
  \/ \E modelId \in ModelIds : ModelExtractionStarted(modelId)

SpecInit == Init /\ [][NextInit]_vars

(* The active-model slice, run after initialize(): the operations on the  *)
(* active model and the error message, and the events that resynchronise   *)
(* or set the error message.  The download operations and the clock are    *)
(* left out: they write neither currentModel nor isFirstRun, and write     *)
(* error only as the operations kept here do; so is extraction-started,    *)
(* which writes extractingModels alone.                                    *)
InitReadyAny ==
  /\ \E hasModels \in BOOLEAN :
       store = [ReadyStore EXCEPT !.hasAnyModels = hasModels,
                                  !.isFirstRun = ~hasModels]
  /\ calls = EmptyBag
  /\ listeners = 1
  /\ now = 0
  /\ last = Step("initialize", "initialize", NoModel, "returned", 0)

NextActive ==
  \/ LoadCurrentModel
  \/ \E modelId \in ModelIds : SelectModel(modelId)
  \/ \E modelId \in ModelIds : DeleteModel(modelId)
  \/ \E c \in Pending, status \in Statuses :
       GetAvailableModelsResponds(c, status)
  \/ \E c \in Pending, status \in Statuses, data \in ModelIds \cup {NoModel} :
       GetCurrentModelResponds(c, status, data)
  \/ \E c \in Pending, status \in Statuses : SetActiveModelResponds(c, status)
  \/ \E c \in Pending, status \in Statuses : DeleteModelResponds(c, status)
  \/ \E modelId \in ModelIds : ModelDownloadComplete(modelId)
  \/ \E modelId \in ModelIds : ModelExtractionCompleted(modelId)
  \/ \E modelId \in ModelIds : ModelExtractionFailed(modelId)
  \/ ModelDeleted
  \/ ModelStateChanged

SpecActive == InitReadyAny /\ [][NextActive]_vars

(* The estimator slice, run after initialize(): the clock, the progress   *)
(* event with every payload, and model-download-cancelled, which destroys  *)
(* the ThroughputSample so that a next sample is again a first one.  No    *)
(* other operation writes downloadStats except by those three deletes.     *)
NextEstimator ==
  \/ Tick
  \/ \E progress \in Samples : ModelDownloadProgress(progress)
  \/ \E modelId \in ModelIds : ModelDownloadCancelled(modelId)

SpecEstimator == InitReady /\ [][NextEstimator]_vars

(* The user-operation slice, run after initialize(): the four operations   *)
(* the user interface calls with an intention, the backend's answers to    *)
(* their commands and to the loads cancelDownload and deleteModel go on to *)
(* await.                                                                  *)
NextUser ==
  \/ \E modelId \in ModelIds : SelectModel(modelId)
  \/ \E modelId \in ModelIds : DownloadModel(modelId)
  \/ \E modelId \in ModelIds : CancelDownload(modelId)
  \/ \E modelId \in ModelIds : DeleteModel(modelId)
  \/ \E c \in Pending, status \in Statuses : SetActiveModelResponds(c, status)
  \/ \E c \in Pending, status \in Statuses : DownloadModelResponds(c, status)
  \/ \E c \in Pending, status \in Statuses : CancelDownloadResponds(c, status)
  \/ \E c \in Pending, status \in Statuses : DeleteModelResponds(c, status)
  \/ \E c \in Pending, status \in Statuses :
       GetAvailableModelsResponds(c, status)
  \/ \E c \in Pending, status \in Statuses, data \in ModelIds \cup {NoModel} :
       GetCurrentModelResponds(c, status, data)

SpecUser == InitReadyAny /\ [][NextUser]_vars

(* The event slice: initialize() from the freshly created store, the      *)
(* successful answers to its three loads and to the loads the listeners   *)
(* start, and the eight events the registered listeners serve.            *)
NextEvents ==
  \/ Initialize
  \/ \E c \in Pending : GetAvailableModelsResponds(c, "ok")
  \/ \E c \in Pending, data \in ModelIds :
       GetCurrentModelResponds(c, "ok", data)
  \/ \E c \in Pending : HasAnyModelsAvailableResponds(c, "ok", TRUE)
  \/ \E modelId \in ModelIds : ModelDownloadProgress(HalfProgress(modelId))
  \/ \E modelId \in ModelIds : ModelDownloadComplete(modelId)
  \/ \E modelId \in ModelIds : ModelDownloadCancelled(modelId)
  \/ \E modelId \in ModelIds : ModelExtractionStarted(modelId)
  \/ \E modelId \in ModelIds : ModelExtractionCompleted(modelId)
  \/ \E modelId \in ModelIds : ModelExtractionFailed(modelId)
  \/ ModelDeleted
  \/ ModelStateChanged

SpecEvents == Init /\ [][NextEvents]_vars

(* The settling slice.  It starts where every download has been started   *)
(* by downloadModel (lines 165-177, accepted by the backend) and refreshes *)
(* started until then are still in flight, each with the snapshot the      *)
(* backend took for it: reachable under Spec by DownloadModel,             *)
(* DownloadModelResponds and LoadModels.  From there on the backend        *)
(* reports no download: the refreshes started in the slice carry the empty *)
(* snapshot.  No download is started and no progress event arrives; the    *)
(* steps are the terminal events, further refreshes and the answers.       *)
InitSettle ==
  /\ store = [ReadyStore EXCEPT
                !.downloadingModels = ModelIds,
                !.downloadProgress = [id \in ModelIds |-> ZeroProgress(id)]]
  /\ calls \in {b \in SubBag([c \in {Call("loadModels", NoModel, "loadModels",
                                          {}, D, NoPre) :
                                       D \in SUBSET ModelIds} |-> MaxCalls]) :
                  BagCardinality(b) <= MaxCalls}
  /\ listeners = 1
  /\ now = 0
  /\ last = Step("downloadModel", "downloadModel", NoModel, "true", 0)
(* the ids some refresh of the bag reports downloading, counted by refresh *)
Reporting(bag) ==
  BagCardinality([c \in {x \in BagToSet(bag) : x.snap # {}} |-> bag[c]])
NoDownloadReported == Reporting(calls') = Reporting(calls)
NextSettle ==
  \/ LoadModels /\ NoDownloadReported
  \/ \E modelId \in ModelIds :
       ModelDownloadComplete(modelId) /\ NoDownloadReported
  \/ \E modelId \in ModelIds : ModelDownloadCancelled(modelId)
  \/ \E c \in Pending, status \in Statuses :
       GetAvailableModelsResponds(c, status)

SpecSettle == InitSettle /\ [][NextSettle]_vars

(* ---------------------------- properties ------------------------------- *)
Failures == {"error", "throw"}
Download(s) == <<s.downloadingModels, s.downloadProgress, s.downloadStats>>
Refreshing(c, by) == c.op = by /\ c.phase = "loadModels"

(* C1: when downloadModel(id) is rejected (failure result or thrown error) *)
(* and returns false, membership and Progress of id are exactly what they  *)
(* were before the call.                                                   *)
C1_OptimisticRollback ==
  [][\A c \in Pending : \A status \in Failures :
       DownloadModelResponds(c, status) => PreOf(store', c.id) = c.pre]_vars

(* C2: a refresh whose snapshot reports id downloading, merged after a     *)
(* terminal event for id was handled, does not put id back into            *)
(* downloadingModels.                                                      *)
C2_NoResurrection ==
  [][\A c \in Pending :
       GetAvailableModelsResponds(c, "ok") =>
         c.stale \cap store'.downloadingModels = {}]_vars

(* C3: a successful loadModels whose snapshot reports a member id as not   *)
(* downloading keeps it when it has a Progress record and removes it when  *)
(* it has none.                                                            *)
C3_RefreshNonRegression ==
  [][\A c \in Pending :
       GetAvailableModelsResponds(c, "ok") =>
         \A id \in store.downloadingModels \ c.snap :
           id \in store'.downloadingModels <=> Has(store.downloadProgress, id)
    ]_vars

C3_Witness ==
  /\ last.op = "loadModels" /\ last.ret = "returned"
  /\ store.error = Null
  /\ \E id \in store.downloadingModels :
       /\ ModelInfo(id, FALSE) \in store.models
       /\ Has(store.downloadProgress, id)

(* C4 as claimed: a Progress record exists iff a ThroughputSample record   *)
(* exists.                                                                 *)
C4_ProgressIffStats ==
  \A id \in ModelIds :
    Has(store.downloadProgress, id) <=> Has(store.downloadStats, id)

(* C4 as amended: a ThroughputSample record exists only with a Progress    *)
(* record, and a Progress record without a ThroughputSample record is the  *)
(* zeroed record written by downloadModel.                                 *)
C4_StatsOnlyWithProgress ==
  \A id \in ModelIds :
    /\ Has(store.downloadStats, id) => Has(store.downloadProgress, id)
    /\ Has(store.downloadProgress, id) /\ ~Has(store.downloadStats, id)
         => store.downloadProgress[id] = ZeroProgress(id)

C4_Witness ==
  /\ last.op = "downloadModel" /\ last.ret = "none"
  /\ Has(store.downloadProgress, last.id)
  /\ ~Has(store.downloadStats, last.id)

(* C5: handling model-download-complete for an id twice in a row gives the *)
(* same membership, Progress and ThroughputSample as handling it once.     *)
C5_TerminalIdempotence ==
  [][\A id \in ModelIds :
       ModelDownloadComplete(id) =>
         LET once == OnDownloadComplete(store, id)
             twice == OnDownloadComplete(once, id)
         IN  /\ Download(twice) = Download(once)
             /\ Download(store') = Download(once)]_vars

C5_Witness ==
  /\ last.op = "model-download-complete"
  /\ last.was.member /\ last.was.progress # {}
  /\ last.id \notin store.downloadingModels

(* C6: downloadModel(id) on an absent id marks it downloading with the     *)
(* zeroed Progress, and success leaves that in place; a progress event     *)
(* replaces Progress[id] by its payload; model-download-complete removes   *)
(* the id from membership, Progress and ThroughputSample and starts a      *)
(* loadModels.                                                             *)
C6_DownloadLifecycle ==
  [][\A id \in ModelIds :
       /\ DownloadModel(id) =>
            /\ id \in store'.downloadingModels
            /\ PreOf(store', id).progress = {ZeroProgress(id)}
       /\ \A c \in Pending :
            DownloadModelResponds(c, "ok") => Download(store') = Download(store)
       /\ \A progress \in Payloads :
            ModelDownloadProgress(progress) =>
              PreOf(store', progress.model_id).progress = {progress}
       /\ ModelDownloadComplete(id) =>
            /\ id \notin store'.downloadingModels
            /\ ~Has(store'.downloadProgress, id)
            /\ ~Has(store'.downloadStats, id)
            /\ BagCardinality(calls') = BagCardinality(calls) + listeners
            /\ \E c \in BagToSet(calls') :
                 /\ Refreshing(c, "model-download-complete")
                 /\ c.stale = {}
                 /\ CopiesIn(c, calls') >= listeners]_vars

C6_Witness ==
  /\ last.op = "model-download-complete"
  /\ last.was = [member |-> TRUE, progress |-> {HalfProgress(last.id)}]
  /\ Download(store) = <<{}, Empty, Empty>>
  /\ \E c \in Pending : Refreshing(c, "model-download-complete")

(* C7: cancelDownload(id) changes no local record when it is called nor    *)
(* when the backend rejects it (and then starts no refresh); when the      *)
(* backend confirms, the three records of id are removed and the call      *)
(* awaits a loadModels, after whose merge alone it returns true.           *)
C7_CancelOnConfirmation ==
  [][/\ \A id \in ModelIds :
          CancelDownload(id) => Download(store') = Download(store)
     /\ \A c \in Pending :
          /\ \A status \in Failures :
               CancelDownloadResponds(c, status) =>
                 /\ Download(store') = Download(store)
                 /\ calls' = calls (-) Single(c)
                 /\ last'.ret = "false"
          /\ CancelDownloadResponds(c, "ok") =>
               /\ Download(store') = Download(RemoveDownload(store, c.id))
               /\ c.id \notin store'.downloadingModels
               /\ ~Has(store'.downloadProgress, c.id)
               /\ ~Has(store'.downloadStats, c.id)
               /\ last'.ret = "none"
               /\ \E d \in BagToSet(calls') :
                    Refreshing(d, "cancelDownload") /\ d.id = c.id
     /\ last'.op = "cancelDownload" /\ last'.ret = "true" =>
          \E c \in Pending, status \in Statuses :
            Refreshing(c, "cancelDownload")
              /\ GetAvailableModelsResponds(c, status)]_vars

C7_Witness ==
  /\ last.op = "cancelDownload" /\ last.ret = "none"
  /\ last.was.member /\ last.was.progress # {}
  /\ last.id \notin store.downloadingModels
  /\ \E c \in Pending : Refreshing(c, "cancelDownload") /\ c.id = last.id

(* C8: selectModel(id) leaves the active id alone when it is called; on    *)
(* success the active id becomes id and the first-run flag false; on        *)
(* failure (failure result or thrown error) both are unchanged and an       *)
(* error message is set.                                                    *)
C8_SelectOnConfirmation ==
  [][/\ \A id \in ModelIds :
          SelectModel(id) =>
            /\ store'.currentModel = store.currentModel
            /\ store'.isFirstRun = store.isFirstRun
     /\ \A c \in Pending :
          /\ SetActiveModelResponds(c, "ok") =>
               /\ store'.currentModel = c.id
               /\ store'.isFirstRun = FALSE
          /\ \A status \in Failures :
               SetActiveModelResponds(c, status) =>
                 /\ store'.currentModel = store.currentModel
                 /\ store'.isFirstRun = store.isFirstRun
                 /\ store'.error # Null]_vars

C8_Witness ==
  /\ last.op = "selectModel" /\ last.ret = "false"
  /\ store.isFirstRun
  /\ store.currentModel # last.id
  /\ store.error = "Failed to switch to model"

ResyncEvents ==
  {"model-download-complete", "model-extraction-completed", "model-deleted",
   "model-state-changed"}

(* C9 as claimed: loadCurrentModel, and a loadModels started by a push     *)
(* event, leave the error message as it was, on success and on failure.    *)
C9_BackgroundKeepsError ==
  [][\A c \in Pending, status \in Statuses :
       /\ \A data \in ModelIds \cup {NoModel} :
            GetCurrentModelResponds(c, status, data) =>
              store'.error = store.error
       /\ c.op \in ResyncEvents /\ GetAvailableModelsResponds(c, status) =>
            store'.error = store.error]_vars

(* C9 as amended: loadCurrentModel leaves the error message as it was, on  *)
(* success and on failure; a loadModels started by a push event sets it to *)
(* null on success and to the load-failure message on failure.             *)
C9_RefreshWritesError ==
  [][\A c \in Pending, status \in Statuses :
       /\ \A data \in ModelIds \cup {NoModel} :
            GetCurrentModelResponds(c, status, data) =>
              store'.error = store.error
       /\ c.op \in ResyncEvents /\ GetAvailableModelsResponds(c, status) =>
            store'.error = IF status = "ok" THEN Null
                           ELSE "Failed to load models"]_vars

C9_Witness ==
  /\ last.op = "loadModels" /\ last.ret = "returned"
  /\ last.by \in ResyncEvents
  /\ store.error = "Failed to load models"

(* C10: the listeners are registered once whatever the number and the      *)
(* interleaving of initialize() calls, so an event runs one copy of its    *)
(* listener.                                                               *)
C10_ListenersOnce ==
  /\ listeners <= 1
  /\ store.initialized => listeners = 1
  /\ last.n <= 1

(* ---------------- the throughput estimator ----------------------------- *)
HalfSecondMs == 500
Elapsed(progress) ==
  now - store.downloadStats[progress.model_id].lastUpdate

(* the instantaneous rate of a sample against the record cur, and the     *)
(* blend of a previous rate with it                                       *)
InstantRate(cur, progress, t) ==
  DMax(DZero, DDiv(DDiv(DOf(progress.downloaded - cur.totalDownloaded), DMiB),
                   DDiv(DOf(t - cur.lastUpdate), DThousand)))
Blend(rate, instant) ==
  DAdd(DMul(rate, DEightTenths), DMul(instant, DTwoTenths))

(* exact values m * 2^e of differences and sums of Numbers *)
Distance(x, y) ==
  LET e == Least(x.e, y.e)
      a == Scale(x.m, x.e - e)
      b == Scale(y.m, y.e - e)
  IN  [m |-> IF BigLess(a, b) THEN BigSub(b, a) ELSE BigSub(a, b), e |-> e]
Sum(u, v) ==
  LET e == Least(u.e, v.e)
  IN  [m |-> BigAdd(Scale(u.m, u.e - e), Scale(v.m, v.e - e)), e |-> e]
Scaled(u, k) == [m |-> u.m, e |-> u.e + k]
AtMost(u, v) ==
  LET e == Least(u.e, v.e)
  IN  ~BigLess(Scale(v.m, v.e - e), Scale(u.m, u.e - e))

(* C11: a progress event for an id that has a ThroughputSample, arriving   *)
(* at most 0.5 s after the record's last accepted sample, replaces         *)
(* Progress[id] by its payload and leaves the ThroughputSample record      *)
(* unchanged.                                                              *)
C11_Debounce ==
  [][\A progress \in Payloads :
       /\ Has(store.downloadStats, progress.model_id)
       /\ Elapsed(progress) <= HalfSecondMs
       /\ ModelDownloadProgress(progress)
       => /\ PreOf(store', progress.model_id).progress = {progress}
          /\ StatsOf(store', progress.model_id)
               = StatsOf(store, progress.model_id)]_vars

C11_Witness ==
  /\ last.op = "model-download-progress"
  /\ last.had # {}
  /\ last.had = StatsOf(store, last.id)
  /\ \E h \in last.had :
       /\ now - h.lastUpdate \in 1..HalfSecondMs
       /\ store.downloadProgress[last.id].downloaded # h.totalDownloaded
       /\ last.was.progress # {store.downloadProgress[last.id]}

(* what a progress event does to the ThroughputSample when the estimator  *)
(* follows the algorithm, previousRate telling whether the record of the   *)
(* id holds a previous rate                                                *)
EstimatorStep(progress, previousRate) ==
  LET id == progress.model_id
  IN  IF ~Has(store.downloadStats, id)
      THEN StatsOf(store', id)
             = {DownloadStats(now, now, progress.downloaded, DZero)}
      ELSE Elapsed(progress) > HalfSecondMs =>
             \A cur \in {store.downloadStats[id]} :
               \A instant \in {InstantRate(cur, progress, now)} :
                 \A rate \in {IF previousRate
                               THEN Blend(cur.speed, instant)
                               ELSE instant} :
                   StatsOf(store', id)
                     = {DownloadStats(cur.startTime, now,
                                      progress.downloaded, rate)}

(* C12 as claimed: the first sample creates the record (start = last       *)
(* update = sample time, total = sample bytes, rate 0); a later accepted   *)
(* sample keeps the start time, takes the sample's time and bytes, and     *)
(* sets the rate to 0.8 x previous rate + 0.2 x instantaneous rate when a  *)
(* previous rate exists, i.e. when an earlier sample was accepted, and to  *)
(* the instantaneous rate otherwise.                                       *)
SampleAccepted(id) ==
  \E cur \in StatsOf(store, id) : cur.lastUpdate # cur.startTime
C12_EstimatorAsSpecified ==
  [][\A progress \in Payloads :
       ModelDownloadProgress(progress) =>
         EstimatorStep(progress, SampleAccepted(progress.model_id))]_vars

(* C12 as amended: the same, the rate being blended when the previous rate *)
(* is greater than zero and set to the instantaneous rate otherwise (so    *)
(* also after accepted samples that left the rate at zero).                *)
RatePositive(id) ==
  \E cur \in StatsOf(store, id) : DLess(DZero, cur.speed)
C12_EstimatorAsCoded ==
  [][\A progress \in Payloads :
       ModelDownloadProgress(progress) =>
         EstimatorStep(progress, RatePositive(progress.model_id))]_vars

(* two samples 1.0 s apart, of 1,000,000 then 2,000,000 bytes *)
C12_Witness ==
  /\ last.op = "model-download-progress"
  /\ \E h \in last.had :
       /\ h.lastUpdate = h.startTime
       /\ h.totalDownloaded = 1000000
       /\ now = h.lastUpdate + 1000
       /\ StatsOf(store, last.id)
            = {DownloadStats(h.startTime, now, 2000000,
                             DDiv(DOf(1000000), DMiB))}

(* C13: an accepted sample whose cumulative bytes are less than the        *)
(* record's contributes an instantaneous rate of exactly zero to the       *)
(* smoothed rate, and no stored smoothed rate is negative.                 *)
C13_NegativeDeltaClamp ==
  [][/\ \A progress \in Payloads :
          /\ Has(store.downloadStats, progress.model_id)
          /\ Elapsed(progress) > HalfSecondMs
          /\ progress.downloaded
               < store.downloadStats[progress.model_id].totalDownloaded
          /\ ModelDownloadProgress(progress)
          => \A cur \in StatsOf(store, progress.model_id) :
               \A new \in StatsOf(store', progress.model_id) :
                 new.speed = IF DLess(DZero, cur.speed)
                             THEN Blend(cur.speed, DZero)
                             ELSE DZero
     /\ \A id \in ModelIds :
          \A new \in StatsOf(store', id) : ~DLess(new.speed, DZero)]_vars

C13_Witness ==
  /\ last.op = "model-download-progress"
  /\ \E h \in last.had :
       \E new \in StatsOf(store, last.id) :
         /\ new.lastUpdate = now /\ h.lastUpdate < now
         /\ new.totalDownloaded < h.totalDownloaded
         /\ DLess(DZero, h.speed)
         /\ DLess(DZero, new.speed) /\ DLess(new.speed, h.speed)

(* C14 as claimed: at an accepted sample of instantaneous rate R that      *)
(* finds the smoothed rate s and leaves it s', |s' - R| <= |s - R| and     *)
(* s' <= max(R, s).                                                        *)
C14_SmoothingBound ==
  [][\A progress \in Payloads :
       /\ Has(store.downloadStats, progress.model_id)
       /\ Elapsed(progress) > HalfSecondMs
       /\ ModelDownloadProgress(progress)
       => \A cur \in StatsOf(store, progress.model_id) :
            \A new \in StatsOf(store', progress.model_id) :
              \A r \in {InstantRate(cur, progress, now)} :
                /\ AtMost(Distance(new.speed, r), Distance(cur.speed, r))
                /\ ~DLess(DMax(r, cur.speed), new.speed)]_vars

(* C14 as amended: the same up to the rounding of the three operations of  *)
(* the blend, |s' - R| <= |s - R| + e and s' <= max(R, s) + e with         *)
(* e = 2^-51 x max(R, s).                                                  *)
RoundingShift == -51
C14_SmoothingBoundRounded ==
  [][\A progress \in Payloads :
       /\ Has(store.downloadStats, progress.model_id)
       /\ Elapsed(progress) > HalfSecondMs
       /\ ModelDownloadProgress(progress)
       => \A cur \in StatsOf(store, progress.model_id) :
            \A new \in StatsOf(store', progress.model_id) :
              \A r \in {InstantRate(cur, progress, now)} :
                \A e \in {Scaled(DMax(r, cur.speed), RoundingShift)} :
                  \A bound \in {Sum(Distance(cur.speed, r), e)} :
                    /\ AtMost(Distance(new.speed, r), bound)
                    /\ AtMost(new.speed, Sum(DMax(r, cur.speed), e))]_vars

(* a third sample at the rate of the second: the smoothed rate leaves R *)
C14_Witness ==
  /\ last.op = "model-download-progress"
  /\ \E h \in last.had :
       \E new \in StatsOf(store, last.id) :
         /\ new.lastUpdate = now /\ h.lastUpdate < now
         /\ DLess(DZero, h.speed)
         /\ h.speed = InstantRate(h, store.downloadProgress[last.id], now)
         /\ new.speed # h.speed

(* ---------------- the snapshot merge and the download records --------- *)
(* C17: a successful loadModels with snapshot S, on membership M and       *)
(* Progress map P read at merge time, leaves the model list equal to S and *)
(* the membership equal to {id : S marks id downloading} union             *)
(* {id in M : P has a record for id}; a failed loadModels leaves the model *)
(* list and the membership unchanged.                                      *)
C17_MergeRule ==
  [][\A c \in Pending, status \in Statuses :
       GetAvailableModelsResponds(c, status) =>
         IF status = "ok"
         THEN /\ store'.models = Snapshot(c.snap)
              /\ store'.downloadingModels
                   = c.snap \cup {id \in store.downloadingModels :
                                    Has(store.downloadProgress, id)}
         ELSE /\ store'.models = store.models
              /\ store'.downloadingModels = store.downloadingModels]_vars

C17_Witness ==
  /\ last.op = "loadModels" /\ last.ret = "returned"
  /\ store.error = Null
  /\ store.models = Snapshot({})
  /\ last.dropped = {}
  /\ \E id \in store.downloadingModels : Has(store.downloadProgress, id)

(* the orders in which the steps of a confirmed cancelDownload(id) (the    *)
(* confirmation, then the merge of its loadModels) and of an event for id  *)
(* (the listener, then the merge of the loadModels it starts, if any) can  *)
(* run                                                                     *)
CancelSteps == <<"confirm", "merge">>
EventSteps(name) ==
  IF "loadModels" \in Refreshes(name) THEN <<"event", "resync">>
  ELSE <<"event">>

RECURSIVE Interleavings(_, _)
Interleavings(a, b) ==
  IF a = <<>> THEN {b}
  ELSE IF b = <<>> THEN {a}
  ELSE {<<Head(a)>> \o x : x \in Interleavings(Tail(a), b)} \cup
       {<<Head(b)>> \o x : x \in Interleavings(a, Tail(b))}

RunStep(s, step, name, id, D) ==
  CASE step = "confirm" -> CancelDownloadResult(s, "ok", id)
    [] step = "event" -> Handle(s, name, id, ZeroProgress(id), now)
    [] OTHER -> LoadModelsResult(s, "ok", Snapshot(D))

RECURSIVE Run(_, _, _, _, _)
Run(s, steps, name, id, D) ==
  IF steps = <<>> THEN s
  ELSE Run(RunStep(s, Head(steps), name, id, D), Tail(steps), name, id, D)

(* the memberships and records the orders end in, the backend answering    *)
(* every loadModels with the snapshot that marks D downloading             *)
Ends(s, name, id, D) ==
  {Download(Run(s, steps, name, id, D)) :
     steps \in Interleavings(CancelSteps, EventSteps(name))}

Absent(id, end) ==
  id \notin end[1] /\ ~Has(end[2], id) /\ ~Has(end[3], id)

(* C18 as claimed: for a fixed backend snapshot, a confirmed               *)
(* cancelDownload(id) and a model-download-cancelled (or -complete) event  *)
(* for id end, in either order, in the same membership, Progress and       *)
(* ThroughputSample, with id absent from all three.                        *)
C18_OrderTolerance ==
  \A c \in Pending :
    c.phase = "cancelDownload" =>
      \A name \in TerminalEvents, D \in SUBSET ModelIds :
        /\ Cardinality(Ends(store, name, c.id, D)) = 1
        /\ \A end \in Ends(store, name, c.id, D) : Absent(c.id, end)

(* C18 as amended: the same, for a fixed backend snapshot that does not    *)
(* mark id downloading.                                                    *)
C18_OrderToleranceWhenStopped ==
  \A c \in Pending :
    c.phase = "cancelDownload" =>
      \A name \in TerminalEvents, D \in SUBSET (ModelIds \ {c.id}) :
        /\ Cardinality(Ends(store, name, c.id, D)) = 1
        /\ \A end \in Ends(store, name, c.id, D) : Absent(c.id, end)

(* the event for id handled between the confirmation of the cancel and the *)
(* merge of its loadModels                                                 *)
C18_Witness ==
  /\ last.op \in TerminalEvents
  /\ ~last.was.member /\ last.was.progress = {}
  /\ Absent(last.id, Download(store))
  /\ \E c \in Pending :
       Refreshing(c, "cancelDownload") /\ c.id = last.id /\ last.id \notin c.snap

(* C19: every step other than a successful merge of loadModels preserves   *)
(* 'every id in the membership has a Progress record', and an id that has  *)
(* a Progress record and stays in the membership keeps one; so             *)
(* downloadModel(id), which makes id a member with a Progress record and   *)
(* changes neither on success, leaves id with a Progress record for as     *)
(* long as it stays in the membership.                                     *)
Covered(s) ==
  \A id \in s.downloadingModels : Has(s.downloadProgress, id)
MergeStep ==
  \E c \in Pending : GetAvailableModelsResponds(c, "ok")
C19_MembershipWithProgress ==
  [][/\ Covered(store) /\ ~MergeStep => Covered(store')
     /\ \A id \in store.downloadingModels \cap store'.downloadingModels :
          Has(store.downloadProgress, id) => Has(store'.downloadProgress, id)
     /\ \A id \in ModelIds :
          DownloadModel(id) =>
            id \in store'.downloadingModels /\ Has(store'.downloadProgress, id)
     /\ \A c \in Pending :
          DownloadModelResponds(c, "ok") =>
            PreOf(store', c.id) = PreOf(store, c.id)
    ]_vars

C19_Witness ==
  /\ last.op = "downloadModel" /\ last.ret = "true"
  /\ last.id \in store.downloadingModels
  /\ Has(store.downloadProgress, last.id)

(* ---------------- the user's operations -------------------------------- *)
UserOperations ==
  {"selectModel", "downloadModel", "cancelDownload", "deleteModel"}
Command(op) == IF op = "selectModel" THEN "setActiveModel" ELSE op
FailureMessage(op) ==
  CASE op = "selectModel" -> "Failed to switch to model"
    [] op = "downloadModel" -> "Failed to download model"
    [] op = "cancelDownload" -> "Failed to cancel download"
    [] op = "deleteModel" -> "Failed to delete model"

(* the call of operation op answers its command with status *)
CommandResponds(c, status) ==
  \/ SetActiveModelResponds(c, status)
  \/ DownloadModelResponds(c, status)
  \/ CancelDownloadResponds(c, status)
  \/ DeleteModelResponds(c, status)
Called(op, id) ==
  CASE op = "selectModel" -> SelectModel(id)
    [] op = "downloadModel" -> DownloadModel(id)
    [] op = "cancelDownload" -> CancelDownload(id)
    [] op = "deleteModel" -> DeleteModel(id)

(* the loads a call goes on to await once its command has succeeded *)
Continues(c) ==
  c.op \in UserOperations /\ c.phase \in {"loadModels", "loadCurrentModel"}

(* C16: each of selectModel, downloadModel, cancelDownload and deleteModel *)
(* sets the error message to null before it issues its command; when the   *)
(* command fails (failure result or thrown error) it returns false with    *)
(* its own non-null error message; when the command succeeds it returns    *)
(* true, at once or after the loads it awaits, whatever their outcome; it  *)
(* returns nothing else, and true only after a successful command.         *)
C16_UserOperations ==
  [][/\ \A op \in UserOperations, id \in ModelIds :
          Called(op, id) =>
            /\ store'.error = Null
            /\ last'.ret = "none"
            /\ \E c \in BagToSet(calls') :
                 /\ c.op = op /\ c.id = id /\ c.phase = Command(op)
                 /\ CopiesIn(c, calls') = CopiesIn(c, calls) + 1
     /\ \A c \in Pending :
          /\ \A status \in Failures :
               CommandResponds(c, status) =>
                 /\ last'.ret = "false"
                 /\ store'.error = FailureMessage(c.op)
                 /\ store'.error # Null
                 /\ calls' = calls (-) Single(c)
          /\ CommandResponds(c, "ok") =>
               IF c.op \in {"selectModel", "downloadModel"}
               THEN last'.ret = "true" /\ calls' = calls (-) Single(c)
               ELSE /\ last'.ret = "none"
                    /\ \E d \in BagToSet(calls') :
                         /\ d.op = c.op /\ d.id = c.id /\ d.phase = "loadModels"
                         /\ CopiesIn(d, calls') = CopiesIn(d, calls) + 1
          /\ \A status \in Statuses :
               Continues(c) /\ GetAvailableModelsResponds(c, status) =>
                 IF c.op = "cancelDownload"
                 THEN last'.ret = "true" /\ calls' = calls (-) Single(c)
                 ELSE /\ last'.ret = "none"
                      /\ \E d \in BagToSet(calls') :
                           /\ d.op = c.op /\ d.id = c.id
                           /\ d.phase = "loadCurrentModel"
                           /\ CopiesIn(d, calls') = CopiesIn(d, calls) + 1
          /\ \A status \in Statuses, data \in ModelIds \cup {NoModel} :
               Continues(c) /\ GetCurrentModelResponds(c, status, data) =>
                 last'.ret = "true" /\ calls' = calls (-) Single(c)
     /\ \A d \in BagToSet(calls') :
          Continues(d) /\ d.phase = "loadModels"
            /\ CopiesIn(d, calls') > CopiesIn(d, calls) =>
              \E c \in Pending : c.op = d.op /\ CommandResponds(c, "ok")
     /\ \A d \in BagToSet(calls') :
          Continues(d) /\ d.phase = "loadCurrentModel"
            /\ CopiesIn(d, calls') > CopiesIn(d, calls) =>
              \E c \in Pending, status \in Statuses :
                /\ c.op = d.op /\ c.phase = "loadModels"
                /\ GetAvailableModelsResponds(c, status)
     /\ last'.op \in UserOperations => last'.ret \in {"none", "true", "false"}
    ]_vars

(* cancelDownload returns true although the loadModels it awaited failed *)
C16_Witness ==
  /\ last.op = "cancelDownload" /\ last.ret = "true"
  /\ store.error = "Failed to load models"

(* ---------------- the events and the refreshes they start ------------- *)
(* the loads of one kind in flight, and those a step adds *)
Loads(bag, kind) ==
  BagCardinality([c \in {x \in BagToSet(bag) : x.phase = kind} |-> bag[c]])
Started(kind) == Loads(calls', kind) - Loads(calls, kind)

(* the step handles its event in the store and leaves in flight, not yet   *)
(* merged, one load of each of the kinds named                             *)
Resyncs(handled, kinds) ==
  /\ store' = handled
  /\ Started("loadModels") = IF "loadModels" \in kinds THEN 1 ELSE 0
  /\ Started("loadCurrentModel") = IF "loadCurrentModel" \in kinds THEN 1 ELSE 0

(* C20: model-download-complete and model-extraction-completed each start  *)
(* exactly one loadModels; model-deleted and model-state-changed each      *)
(* start one loadModels and one loadCurrentModel; model-download-cancelled,*)
(* model-download-progress, model-extraction-started and                   *)
(* model-extraction-failed start no load; every handler has changed the    *)
(* store before a load it started is merged.                               *)
C20_EventResync ==
  [][/\ \A id \in ModelIds :
          /\ ModelDownloadComplete(id) =>
               Resyncs(OnDownloadComplete(store, id), {"loadModels"})
          /\ ModelExtractionCompleted(id) =>
               Resyncs(OnExtractionCompleted(store, id), {"loadModels"})
          /\ ModelDownloadCancelled(id) =>
               Resyncs(OnDownloadCancelled(store, id), {})
          /\ ModelExtractionStarted(id) =>
               Resyncs(OnExtractionStarted(store, id), {})
          /\ ModelExtractionFailed(id) =>
               Resyncs(OnExtractionFailed(store, id), {})
     /\ \A progress \in Payloads :
          ModelDownloadProgress(progress) =>
            Resyncs(OnDownloadProgress(store, progress, now), {})
     /\ ModelDeleted => Resyncs(store, {"loadModels", "loadCurrentModel"})
     /\ ModelStateChanged => Resyncs(store, {"loadModels", "loadCurrentModel"})
    ]_vars

(* ---------------- eventual consistency of the membership -------------- *)
(* in the settling slice every id starts with the Progress record of its  *)
(* download, and a terminal event for the id is what deletes it            *)
TerminalHandled(id) == ~Has(store.downloadProgress, id)

(* C15: when from some point on the backend reports id as not downloading *)
(* in every snapshot, a terminal event for id has been handled and no      *)
(* start or progress event for id follows, then once every refresh in      *)
(* flight has been merged, in whatever order they are answered, id is not  *)
(* in downloadingModels.                                                   *)
C15_EventualConsistency ==
  \A id \in ModelIds :
    TerminalHandled(id) /\ Loads(calls, "loadModels") = 0
      => id \notin store.downloadingModels

(* ---------------- terminal events for an id outside the membership ---- *)
TerminalEvent(id) == ModelDownloadComplete(id) \/ ModelDownloadCancelled(id)

(* C21 as claimed: handling model-download-complete or                     *)
(* model-download-cancelled for an id that is not in downloadingModels     *)
(* leaves downloadingModels, downloadProgress and downloadStats unchanged. *)
C21_TerminalNoOp ==
  [][\A id \in ModelIds :
       id \notin store.downloadingModels /\ TerminalEvent(id)
       => Download(store') = Download(store)]_vars

(* C21 as amended: handling it leaves downloadingModels unchanged and      *)
(* removes the Progress and the ThroughputSample of the id when it has     *)
(* them, so that it changes nothing when the id has neither.               *)
C21_TerminalOutsideMembership ==
  [][\A id \in ModelIds :
       id \notin store.downloadingModels /\ TerminalEvent(id)
       => /\ store'.downloadingModels = store.downloadingModels
          /\ store'.downloadProgress = Delete(store.downloadProgress, id)
          /\ store'.downloadStats = Delete(store.downloadStats, id)
          /\ ~Has(store.downloadProgress, id) /\ ~Has(store.downloadStats, id)
               => Download(store') = Download(store)]_vars

(* a progress event for an id outside the membership, then its terminal   *)
(* event                                                                   *)
C21_Witness ==
  /\ last.op \in TerminalEvents
  /\ ~last.was.member
  /\ last.was.progress # {} /\ last.had # {}
  /\ ~Has(store.downloadProgress, last.id)
  /\ ~Has(store.downloadStats, last.id)

(* ---------------- the ThroughputSample and its Progress record -------- *)
(* C22: in every reachable state an id that has a ThroughputSample record *)
(* has a Progress record, and no step removes the Progress record of an id *)
(* and leaves its ThroughputSample record in place.                        *)
C22_StatsWithProgress ==
  /\ [](\A id \in ModelIds :
         Has(store.downloadStats, id) => Has(store.downloadProgress, id))
  /\ [][\A id \in ModelIds :
         Has(store.downloadProgress, id) /\ ~Has(store'.downloadProgress, id)
         => ~Has(store'.downloadStats, id)]_vars

(* a confirmed cancelDownload of an id that had both records *)
C22_Witness ==
  /\ last.op = "cancelDownload" /\ last.ret = "none"
  /\ last.was.progress # {} /\ last.had # {}
  /\ ~Has(store.downloadProgress, last.id)
  /\ ~Has(store.downloadStats, last.id)

====
